---- MODULE Spec2Model ----
(***************************************************************************)
(* aicommits-rs: the commit-message generation and review pipeline of      *)
(* src/main.rs (main, get_git_diff, generate_commit) with the configuration*)
(* collaborator of src/config.rs.                                          *)
(*                                                                         *)
(* Text is a sequence of characters.  External collaborators (the git      *)
(* subprocesses, the HTTP service, the terminal) are nondeterministic      *)
(* inputs of the actions.  Every observable effect of a run (subprocess,   *)
(* HTTP request, line printed, selection read) is appended to `trace`;     *)
(* `shown` is the message of the last suggestion printed and `ret` the     *)
(* value the last call of generate_commit returned.                        *)
(*                                                                         *)
(* Specifications: Spec is a whole run of main, one action per call of     *)
(* main; SpecGenerate is generate_commit on its own and SpecModels is      *)
(* get_models on its own, over every answer of the service; SpecLoop is the*)
(* review loop of main with the commit and the push behind it, one action  *)
(* per suspension point, where `pending` holds the operations the task has *)
(* started and not yet seen return, `response` the response whose body is *)
(* being read and `rounds` the "Gerar Novamente" selections counted so far.*)
(* SpecLoop keeps no trace, so that the loop may go round without end.     *)
(***************************************************************************)
EXTENDS Integers, Sequences, FiniteSets, TLC

VARIABLES pc, cli, cfg, output, diff, ret, msg, shown, final_msg, result, trace, input,
          response, pending, rounds

vars == <<pc, cli, cfg, output, diff, ret, msg, shown, final_msg, result, trace, input,
          response, pending, rounds>>

(***************************************************************************)
(* Bounds of the model.                                                    *)
(***************************************************************************)
\* characters of one git output stream (stdout or stderr of git diff)
MaxDiffLen == 2
\* characters of one successful service response, over all its text segments
MaxChars == 3
\* characters of the body of one error response of the service
MaxBody == 2
\* candidates of one service response
MaxCands == 2
\* text segments of one service response, over all its candidates
MaxSegs == 2
\* "Gerar Novamente" selections of one run
MaxRegen == 2
\* models of one listing
MaxModels == 2

(***************************************************************************)
(* Text.                                                                   *)
(***************************************************************************)
\* the alphabet: a letter, a space and a line break
Chars == {"a", " ", "\n"}

\* char::is_whitespace, restricted to the characters that can occur
White_Space == {" ", "\n", "\t", "\r"}

RECURSIVE TextsOfLen(_)
TextsOfLen(n) ==
    IF n = 0 THEN {<<>>}
    ELSE {<<c>> \o t : c \in Chars, t \in TextsOfLen(n - 1)}

TextsUpTo(n) == UNION {TextsOfLen(k) : k \in 0..n}

\* the value of a variable that holds nothing yet
None == <<"none">>

RECURSIVE trim_start(_)
trim_start(s) ==
    IF s = <<>> THEN s
    ELSE IF Head(s) \in White_Space THEN trim_start(Tail(s))
    ELSE s

RECURSIVE trim_end(_)
trim_end(s) ==
    IF s = <<>> THEN s
    ELSE IF s[Len(s)] \in White_Space THEN trim_end(SubSeq(s, 1, Len(s) - 1))
    ELSE s

\* a trim that leaves the end of the text alone
trim_start_only(s) == trim_start(s)

\* a trim that leaves the start of the text alone
trim_end_only(s) == trim_end(s)

\* str::trim
trim(s) == trim_end(trim_start(s))

(***************************************************************************)
(* anyhow::Result.                                                         *)
(***************************************************************************)
Ok(v) == [ok |-> TRUE, value |-> v]
Err(e) == [ok |-> FALSE, error |-> e]

\* the error messages of the source, under the names of the error taxonomy
BackendUnavailable == "Falha ao executar o comando 'git'. O git esta instalado e no PATH?"
BackendError == "Erro ao rodar git diff: {}"
EncodingError == "O output do git diff nao e um UTF-8 valido"
NoStagedChanges == "Nenhuma alteracao staged encontrada. Use 'git add' antes de rodar o gerador."
ServiceError == "Erro da API ({}): {}"
EmptyResponse == "Sem resposta"
EmptyContent == "Sem texto"
StageUnavailable == "Falha ao executar git add"
StageFailed == "O git add falhou."
CommitUnavailable == "Falha ao executar git commit"
CommitFailed == "O git commit falhou. Verifique se ha arquivos staged."
PushUnavailable == "Falha ao executar git push"
\* the message of the failed commit, pasted where the push fails
PushFailed_pasted == "O git commit falhou. Verifique se ha arquivos staged."
PushFailed == "O git push falhou. Verifique sua conexao ou permissoes."
ConfigCorrupt == "Arquivo de configuracao corrompido. Tente rodar com --reset"
\* errors passed on by `?` without a message of this program
TransportError == "reqwest::Error"
IoError == "std::io::Error"

(***************************************************************************)
(* Subprocesses (std::process::Command).                                   *)
(***************************************************************************)
ExitCodes == {0, 1, 128}

\* a check of the exit status that takes a non-zero exit for success
success_inverted(status) == status.code # 0

\* a check of the exit status that lets every exit code pass
success_always(status) == status.code >= 0

\* ExitStatus::success
success(status) == status.code = 0

\* Command::status(): the process could not be started, or its exit status
StatusResults ==
    {[spawned |-> FALSE]} \cup {[spawned |-> TRUE, status |-> [code |-> c]] : c \in ExitCodes}

\* bytes that are not valid UTF-8
InvalidUtf8 == <<"\\xFF">>

\* what String::from_utf8_lossy makes of them
Replacement == <<"U+FFFD">>

Streams == TextsUpTo(MaxDiffLen) \cup {InvalidUtf8}

\* Command::output() of `git diff --staged`
DiffOutputs ==
    {[spawned |-> FALSE]}
    \cup {[spawned |-> TRUE, status |-> [code |-> c], stdout |-> o, stderr |-> e] :
            c \in ExitCodes, o \in Streams, e \in Streams}

from_utf8_lossy(bytes) == IF bytes = InvalidUtf8 THEN Replacement ELSE bytes

\* get_git_diff that looks at the standard output before the exit status
get_git_diff_stdout_first(out) ==
    IF ~out.spawned THEN Err([msg |-> BackendUnavailable, source |-> IoError])
    ELSE IF out.stdout = InvalidUtf8 THEN Err([msg |-> EncodingError])
    ELSE IF trim(out.stdout) = <<>> THEN Err([msg |-> NoStagedChanges])
    ELSE IF ~success(out.status)
         THEN Err([msg |-> BackendError, stderr |-> from_utf8_lossy(out.stderr)])
    ELSE Ok(out.stdout)

\* get_git_diff with is_empty() on the untrimmed output
get_git_diff_untrimmed(out) ==
    IF ~out.spawned THEN Err([msg |-> BackendUnavailable, source |-> IoError])
    ELSE IF ~success(out.status)
         THEN Err([msg |-> BackendError, stderr |-> from_utf8_lossy(out.stderr)])
    ELSE IF out.stdout = InvalidUtf8 THEN Err([msg |-> EncodingError])
    ELSE IF out.stdout = <<>> THEN Err([msg |-> NoStagedChanges])
    ELSE Ok(out.stdout)

get_git_diff(out) ==
    IF ~out.spawned THEN Err([msg |-> BackendUnavailable, source |-> IoError])
    ELSE IF ~success(out.status)
         THEN Err([msg |-> BackendError, stderr |-> from_utf8_lossy(out.stderr)])
    ELSE IF out.stdout = InvalidUtf8 THEN Err([msg |-> EncodingError])
    ELSE IF trim(out.stdout) = <<>> THEN Err([msg |-> NoStagedChanges])
    ELSE Ok(out.stdout)

(***************************************************************************)
(* The generation service and generate_commit.                             *)
(***************************************************************************)
ApiKeys == {"k1"}
Models == {"gemini-2.0-flash", "gemini-1.5-flash", "gemini-1.5-pro"}
Languages == {"English", "Portugues"}

max_output_tokens == 1024
temperature == "0.2"

\* format!("https://.../v1beta/models/{}:generateContent?key={}", model, api_key)
url(api_key, model) ==
    <<"https://generativelanguage.googleapis.com/v1beta/models/", model,
      ":generateContent?key=", api_key>>

\* format!(...): the instructions with {language} in them, then the diff verbatim
prompt_text(language, d) ==
    <<"Act as a commit message generator. \n        Analyze the git diff below and generate a SINGLE, complete line of commit message following the Conventional Commits specification (e.g., feat, fix, chore, docs).\n        The message must be concise, objective, and in ",
      language,
      ".\n        Do not truncate the sentence. Do not use quotes or markdown code blocks.\n        \n        Diff:\n        ">>
    \o d

\* a request that raises the temperature once an attempt was made
GenerateContentRequest_warmer(language, d) ==
    [contents |-> <<[parts |-> <<[text |-> prompt_text(language, d)]>>]>>,
     generation_config |->
        [max_output_tokens |-> max_output_tokens,
         temperature |-> IF \E i \in DOMAIN trace : trace[i].kind = "generate_commit"
                         THEN "0.7" ELSE temperature]]

GenerateContentRequest(language, d) ==
    [contents |-> <<[parts |-> <<[text |-> prompt_text(language, d)]>>]>>,
     generation_config |->
        [max_output_tokens |-> max_output_tokens, temperature |-> temperature]]

\* the POST that generate_commit sends
Request(api_key, model, d, language) ==
    [url |-> url(api_key, model), body |-> GenerateContentRequest(language, d)]

\* StatusCode::is_success
is_success(status) == status >= 200 /\ status <= 299

StatusCodes == {200, 204, 400, 404, 500}

\* k text segments holding at most c characters together
RECURSIVE Parts(_, _)
Parts(k, c) ==
    IF k = 0 THEN {<<>>}
    ELSE UNION {{<<[text |-> t]>> \o r : r \in Parts(k - 1, c - Len(t))} : t \in TextsUpTo(c)}

RECURSIVE CharsOf(_)
CharsOf(parts) == IF parts = <<>> THEN 0 ELSE Len(Head(parts).text) + CharsOf(Tail(parts))

\* n candidates holding at most s segments and c characters together
RECURSIVE Candidates(_, _, _)
Candidates(n, s, c) ==
    IF n = 0 THEN {<<>>}
    ELSE UNION {{<<[content |-> [parts |-> p]]>> \o r :
                    r \in Candidates(n - 1, s - Len(p), c - CharsOf(p))} :
                p \in UNION {Parts(k, c) : k \in 0..s}}

\* a body that serde parses into GenerateContentResponse
GenerateContentResponses ==
    {[candidates |-> cs] : cs \in UNION {Candidates(n, MaxSegs, MaxChars) : n \in 0..MaxCands}}

\* a body that cannot be read, and one that is not a GenerateContentResponse
Unreadable == <<"unreadable">>
Malformed == [malformed |-> TRUE]

\* what the service can answer: no answer at all, a status with a body of text
\* (read by res.text()) or with a JSON body (read by res.json())
Responses ==
    {[sent |-> FALSE]}
    \cup {[sent |-> TRUE, status |-> st, text |-> t] :
            st \in {x \in StatusCodes : ~is_success(x)},
            t \in TextsUpTo(MaxBody) \cup {Unreadable}}
    \cup {[sent |-> TRUE, status |-> st, json |-> j] :
            st \in {x \in StatusCodes : is_success(x)},
            j \in GenerateContentResponses \cup {Malformed}}

\* a first() that falls back to an empty element instead of None
first_or_default(s) ==
    IF s = <<>> THEN Ok([content |-> [parts |-> <<>>], text |-> <<>>]) ELSE Ok(s[1])

\* slice::first
first(s) == IF s = <<>> THEN Err("None") ELSE Ok(s[1])

\* an error that carries the body with its surrounding whitespace removed
api_error_trimmed(model, err) == [msg |-> ServiceError, model |-> model, body |-> trim(err)]

\* anyhow::bail!("Erro da API ({}): {}", model, err)
api_error(model, err) == [msg |-> ServiceError, model |-> model, body |-> err]

\* generate_commit from the answer of the service on
handle_response(model, res) ==
    IF ~res.sent THEN Err([msg |-> TransportError, at |-> "send"])
    ELSE IF ~is_success(res.status)
         THEN IF res.text = Unreadable THEN Err([msg |-> TransportError, at |-> "text"])
              ELSE Err(api_error(model, res.text))
    ELSE IF res.json = Malformed THEN Err([msg |-> TransportError, at |-> "json"])
    ELSE LET candidate == first(res.json.candidates)
         IN  IF ~candidate.ok THEN Err([msg |-> EmptyResponse])
             ELSE LET part == first(candidate.value.content.parts)
                  IN  IF ~part.ok THEN Err([msg |-> EmptyContent])
                      ELSE Ok(trim(part.value.text))

generate_commit(api_key, model, d, language, res) ==
    [request |-> Request(api_key, model, d, language),
     result |-> handle_response(model, res)]

\* the results generate_commit can give for a model, over every answer
GenerateResults == [m \in Models |-> {handle_response(m, r) : r \in Responses}]

(***************************************************************************)
(* Configuration (src/config.rs).                                          *)
(***************************************************************************)
NoConfig == [api_key |-> "", model |-> ""]

AppConfig == [api_key : ApiKeys, model : Models]

\* the list run_setup falls back to when the models cannot be listed
FallbackModels == <<"gemini-2.0-flash", "gemini-1.5-flash", "gemini-1.5-pro">>

\* the model names in descending order
DescendingModels == <<"gemini-2.0-flash", "gemini-1.5-pro", "gemini-1.5-flash">>

\* what get_models can return: an error, or a non-empty list in descending order
ModelListings ==
    {Err([msg |-> TransportError, at |-> "models"])}
    \cup {Ok(SelectSeq(DescendingModels, LAMBDA m : m \in S)) : S \in (SUBSET Models) \ {{}}}

\* the terminal and the disk during run_setup: the key typed, the listing,
\* the index selected (0 = none, the prompt failed), and whether the save worked
SetupEnvs ==
    [api_key : ApiKeys \cup {""}, listing : ModelListings, selection : 0..3, saved : BOOLEAN]

run_setup(env) ==
    IF env.api_key = "" THEN Err([msg |-> IoError, at |-> "api_key"])
    ELSE LET models == IF env.listing.ok THEN env.listing.value ELSE FallbackModels
         IN  IF env.selection = 0 \/ env.selection > Len(models)
             THEN Err([msg |-> IoError, at |-> "select"])
             ELSE IF ~env.saved THEN Err([msg |-> IoError, at |-> "save_config"])
             ELSE Ok([api_key |-> env.api_key, model |-> models[env.selection]])

\* the configuration file as load_or_setup finds it
ConfigFiles == {[exists |-> FALSE]}
    \cup {[exists |-> TRUE, toml |-> t] : t \in AppConfig \cup {NoConfig}}

load_or_setup(file, env) ==
    IF file.exists
    THEN IF file.toml = NoConfig THEN Err([msg |-> ConfigCorrupt]) ELSE Ok(file.toml)
    ELSE run_setup(env)

(***************************************************************************)
(* main.                                                                   *)
(***************************************************************************)
Cli == [command : {"None", "Setup"}, all : BOOLEAN, print_only : BOOLEAN, language : Languages]

Running == [status |-> "running"]
Succeeded == [status |-> "Ok"]
Failed(e) == [status |-> "Err", error |-> e]

\* the observable events of a run
Command(argv, r) == [kind |-> "command", argv |-> argv, result |-> r]
Call(request) == [kind |-> "generate_commit", request |-> request]
Println(line) == [kind |-> "println", line |-> line]
Select(r) == [kind |-> "select", result |-> r]

\* Select::interact(): the index of the item chosen, or an error of the terminal
options == <<"Confirmar (Commit & Push)", "Gerar Novamente", "Cancelar">>
Interactions == {Err([msg |-> IoError, at |-> "interact"])} \cup {Ok(i) : i \in 0..(Len(options) - 1)}

\* the "Gerar Novamente" selections so far
Regenerations == Cardinality({i \in DOMAIN trace :
                    trace[i].kind = "select" /\ trace[i].result = Ok(1)})

\* a print-only flag that is read the wrong way round
print_and_return_negated == ~cli.print_only

\* a print-only flag that is never looked at
print_and_continue == FALSE

\* main, `if cli.print_only`: print the message and return
print_and_return == cli.print_only

\* a match that answers every selection by generating again
match_selection_always_continue(selection) ==
    IF selection >= 0 THEN "continue" ELSE "return"

\* a match that takes every selection but "Gerar Novamente" for the confirmation
match_selection_default_confirms(selection) ==
    IF selection = 1 THEN "continue" ELSE "break"

\* main, `match selection`: 0 confirms, 1 generates again, anything else cancels
match_selection(selection) ==
    IF selection = 0 THEN "break"
    ELSE IF selection = 1 THEN "continue"
    ELSE "return"

\* a loop that starts over at the reading of the diff
loop_head_rereads == "diff"

\* main, `loop {`: where `continue` goes on
loop_head == "generate"

\* a process that ends with status 0 whatever main returned
exit_code_ignores_error == IF result = Succeeded THEN 0 ELSE 0

\* the exit status of the process: 0 when main returned Ok, 1 when it
\* returned Err (main is `-> Result<()>`)
exit_code == IF result = Succeeded THEN 0 ELSE 1

Init ==
    /\ pc = "main"
    /\ cli \in Cli
    /\ cfg = NoConfig
    /\ output = None
    /\ diff = None
    /\ msg = None
    /\ shown = None
    /\ final_msg = None
    /\ result = Running
    /\ trace = <<>>
    /\ input = None
    /\ response = None
    /\ pending = <<>>
    /\ rounds = 0
    /\ ret = None

\* a generation failure that is answered by one more call instead of being
\* returned
Bail_retry(e, events) ==
    IF pc = "generate" /\ Len(trace) < 6
    THEN /\ pc' = "generate"
         /\ trace' = trace \o events
         /\ UNCHANGED result
    ELSE /\ pc' = "exit"
         /\ result' = Failed(e)
         /\ trace' = trace \o events

\* return Err(e) from main
Bail(e, events) ==
    /\ pc' = "exit"
    /\ result' = Failed(e)
    /\ trace' = trace \o events

\* main, `aic setup`: run_setup and return; run_setup ends with the line that
\* reports the saved configuration
Setup ==
    /\ pc = "main"
    /\ cli.command = "Setup"
    /\ \E env \in SetupEnvs :
          LET r == run_setup(env)
          IN  /\ pc' = "exit"
              /\ result' = IF r.ok THEN Succeeded ELSE Failed(r.error)
              /\ trace' = IF r.ok THEN <<Println("Configuracao salva com sucesso!")>>
                          ELSE trace
    /\ UNCHANGED <<cli, cfg, output, diff, ret, msg, shown, final_msg, input, response, pending, rounds>>

\* main: load the configuration
LoadOrSetup ==
    /\ pc = "main"
    /\ cli.command = "None"
    /\ \E file \in ConfigFiles, env \in SetupEnvs :
          LET r == load_or_setup(file, env)
          IN  IF r.ok
              THEN /\ cfg' = r.value
                   /\ pc' = IF cli.all THEN "add" ELSE "diff"
                   /\ UNCHANGED <<result, trace>>
              ELSE /\ Bail(r.error, <<>>)
                   /\ UNCHANGED cfg
    /\ UNCHANGED <<cli, output, diff, ret, msg, shown, final_msg, input, response, pending, rounds>>

\* main, --all: git add .
GitAdd ==
    /\ pc = "add"
    /\ \E r \in StatusResults :
          LET events == <<Println("Adicionando todos os arquivos (git add .)..."),
                          Command(<<"git", "add", ".">>, r)>>
          IN  IF ~r.spawned THEN Bail([msg |-> StageUnavailable, source |-> IoError], events)
              ELSE IF ~success(r.status) THEN Bail([msg |-> StageFailed], events)
              ELSE /\ pc' = "diff"
                   /\ trace' = trace \o events
                   /\ UNCHANGED result
    /\ UNCHANGED <<cli, cfg, output, diff, ret, msg, shown, final_msg, input, response, pending, rounds>>

\* get_git_diff: run git diff --staged and wait for its output
GitDiff ==
    /\ pc = "diff"
    /\ \E out \in DiffOutputs :
          /\ output' = out
          /\ trace' = trace \o
                <<Println("Analisando alteracoes no git..."),
                  Command(<<"git", "diff", "--staged">>,
                          IF out.spawned THEN [spawned |-> TRUE, status |-> out.status]
                          ELSE [spawned |-> FALSE])>>
    /\ pc' = "get_git_diff"
    /\ UNCHANGED <<cli, cfg, diff, ret, msg, shown, final_msg, result, input, response, pending, rounds>>

\* get_git_diff returns to main
GetGitDiff ==
    /\ pc = "get_git_diff"
    /\ LET r == get_git_diff(output)
       IN  IF r.ok
           THEN /\ diff' = r.value
                /\ pc' = "generate"
                /\ UNCHANGED <<result, trace>>
           ELSE /\ Bail(r.error, <<>>)
                /\ UNCHANGED diff
    /\ output' = None
    /\ UNCHANGED <<cli, cfg, ret, msg, shown, final_msg, input, response, pending, rounds>>

\* main, the head of the loop: generate_commit, then print or show the message
Generate ==
    /\ pc = "generate"
    /\ \E r \in GenerateResults[cfg.model] :
          LET events == <<Println("Gerando mensagem de commit com {}..."),
                          Call(Request(cfg.api_key, cfg.model, diff, cli.language))>>
          IN  /\ ret' = r
              /\ IF ~r.ok
                 THEN /\ Bail(r.error, events)
                      /\ UNCHANGED <<msg, shown>>
                 ELSE IF print_and_return
                 THEN /\ pc' = "exit"
                      /\ result' = Succeeded
                      /\ msg' = r.value
                      /\ shown' = r.value
                      /\ trace' = trace \o events \o
                            <<Println("--- Sugestao de Commit Message ---")>>
                 ELSE /\ msg' = r.value
                      /\ shown' = r.value
                      /\ pc' = "interact"
                      /\ trace' = trace \o events \o <<Println("Sugestao: {}")>>
                      /\ UNCHANGED result
    /\ UNCHANGED <<cli, cfg, output, diff, final_msg, input, response, pending, rounds>>

\* main, the end of the loop: the selection of the user
Interact ==
    /\ pc = "interact"
    /\ \E s \in Interactions :
          IF ~s.ok
          THEN /\ Bail(s.error, <<Select(s)>>)
               /\ UNCHANGED final_msg
          ELSE IF match_selection(s.value) = "break"
          THEN /\ final_msg' = msg
               /\ pc' = "commit"
               /\ trace' = Append(trace, Select(s))
               /\ UNCHANGED result
          ELSE IF match_selection(s.value) = "continue"
          THEN /\ Regenerations < MaxRegen
               /\ pc' = loop_head
               /\ trace' = trace \o
                    <<Select(s), Println("Tentando outra opcao...")>>
               /\ UNCHANGED <<final_msg, result>>
          ELSE /\ pc' = "exit"
               /\ result' = Succeeded
               /\ trace' = trace \o
                    <<Select(s), Println("Operacao cancelada pelo usuario.")>>
               /\ UNCHANGED final_msg
    /\ UNCHANGED <<cli, cfg, output, diff, ret, msg, shown, input, response, pending, rounds>>

\* a commit command that hands every character of the message over as an
\* argument of its own
commit_argv_split(m) == <<"git", "commit", "-m">> \o [i \in 1..Len(m) |-> <<m[i]>>]

\* the argument vector of the commit command: .arg("commit").arg("-m").arg(&final_msg)
commit_argv(m) == <<"git", "commit", "-m", m>>

\* main: git commit -m final_msg
GitCommit ==
    /\ pc = "commit"
    /\ \E r \in StatusResults :
          LET events == <<Command(commit_argv(final_msg), r)>>
          IN  IF ~r.spawned THEN Bail([msg |-> CommitUnavailable, source |-> IoError], events)
              ELSE IF ~success(r.status) THEN Bail([msg |-> CommitFailed], events)
              ELSE /\ pc' = "push"
                   /\ trace' = trace \o events
                   /\ UNCHANGED result
    /\ UNCHANGED <<cli, cfg, output, diff, ret, msg, shown, final_msg, input, response, pending, rounds>>

\* main: git push
GitPush ==
    /\ pc = "push"
    /\ \E r \in StatusResults :
          LET events == <<Println("Executando git push..."),
                          Command(<<"git", "push">>, r)>>
          IN  IF ~r.spawned THEN Bail([msg |-> PushUnavailable, source |-> IoError], events)
              ELSE IF ~success(r.status) THEN Bail([msg |-> PushFailed], events)
              ELSE /\ pc' = "exit"
                   /\ result' = Succeeded
                   /\ trace' = trace \o events \o
                        <<Println("Sucesso! Alteracoes enviadas.")>>
    /\ UNCHANGED <<cli, cfg, output, diff, ret, msg, shown, final_msg, input, response, pending, rounds>>

Next ==
    \/ Setup
    \/ LoadOrSetup
    \/ GitAdd
    \/ GitDiff
    \/ GetGitDiff
    \/ Generate
    \/ Interact
    \/ GitCommit
    \/ GitPush

Spec == Init /\ [][Next]_vars

(***************************************************************************)
(* generate_commit on its own: every configuration and every answer of the *)
(* service.                                                                *)
(***************************************************************************)
GenerateInputs ==
    [api_key : ApiKeys, model : Models, diff : {<<"a">>}, language : Languages, res : Responses]

InitGenerate ==
    /\ pc = "call"
    /\ input \in GenerateInputs
    /\ ret = None
    /\ cli = [command |-> "None", all |-> FALSE, print_only |-> TRUE, language |-> input.language]
    /\ cfg = [api_key |-> input.api_key, model |-> input.model]
    /\ output = None
    /\ diff = input.diff
    /\ msg = None
    /\ shown = None
    /\ final_msg = None
    /\ result = Running
    /\ trace = <<>>
    /\ response = None
    /\ pending = <<>>
    /\ rounds = 0

CallGenerateCommit ==
    /\ pc = "call"
    /\ ret' = generate_commit(input.api_key, input.model, input.diff, input.language, input.res)
    /\ pc' = "return"
    /\ UNCHANGED <<cli, cfg, output, diff, msg, shown, final_msg, result, trace, input, response, pending, rounds>>

NextGenerate == CallGenerateCommit

SpecGenerate == InitGenerate /\ [][NextGenerate]_vars

(***************************************************************************)
(* get_models on its own (src/config.rs): every answer of the listing      *)
(* endpoint.  A model name is a sequence of pieces, "models/" being one    *)
(* piece.                                                                  *)
(***************************************************************************)
\* the pieces of the names, in the order of str
NamePieces == <<"flash", "gemini", "models/">>

\* the names of the listing: with the prefix, without it, with "models/"
\* behind the first piece, and made of "models/" alone
ModelNames ==
    {<<"models/", "gemini">>, <<"models/", "flash">>, <<"gemini">>,
     <<"gemini", "models/">>, <<"models/", "models/">>}

\* supportedGenerationMethods: absent, or a list of methods
NoMethods == <<"None">>
MethodLists == {NoMethods, <<"embedContent">>, <<"embedContent", "generateContent">>}

\* struct ModelInfo
ModelInfo == [name : ModelNames, supported_methods : MethodLists]

RECURSIVE ModelLists(_)
ModelLists(n) ==
    IF n = 0 THEN {<<>>}
    ELSE {<<m>> \o t : m \in ModelInfo, t \in ModelLists(n - 1)}

\* a body that serde parses into ListModelsResponse
ListModelsResponses == {[models |-> l] : l \in UNION {ModelLists(n) : n \in 0..MaxModels}}

ListStatusCodes == {200, 404, 500}

\* what the listing endpoint can answer
ListResponses ==
    {[sent |-> FALSE]}
    \cup {[sent |-> TRUE, status |-> st] : st \in {x \in ListStatusCodes : ~is_success(x)}}
    \cup {[sent |-> TRUE, status |-> st, json |-> j] :
            st \in {x \in ListStatusCodes : is_success(x)},
            j \in ListModelsResponses \cup {Malformed}}

ListFailed == "Falha ao listar modelos: {}"
NoCompatibleModel == "Nenhum modelo compativel encontrado."

\* Vec::contains
contains(list, x) == \E i \in DOMAIN list : list[i] = x

\* str::replace(from, ""): every occurrence of `from` is taken out
replace(name, from) == SelectSeq(name, LAMBDA c : c # from)

\* the order of str on names: piece by piece, a proper prefix before its
\* extensions
PieceLess(a, b) ==
    \E i, j \in DOMAIN NamePieces : NamePieces[i] = a /\ NamePieces[j] = b /\ i < j

RECURSIVE Less(_, _)
Less(a, b) ==
    IF b = <<>> THEN FALSE
    ELSE IF a = <<>> THEN TRUE
    ELSE IF Head(a) = Head(b) THEN Less(Tail(a), Tail(b))
    ELSE PieceLess(Head(a), Head(b))

\* the place of x in an ascending list, behind the elements equal to it
RECURSIVE insert(_, _)
insert(list, x) ==
    IF list = <<>> THEN <<x>>
    ELSE IF Less(x, Head(list)) THEN <<x>> \o list
    ELSE <<Head(list)>> \o insert(Tail(list), x)

\* slice::sort: ascending, equal elements in their order
RECURSIVE sort(_)
sort(list) ==
    IF list = <<>> THEN <<>>
    ELSE insert(sort(SubSeq(list, 1, Len(list) - 1)), list[Len(list)])

\* slice::reverse
reverse(list) == [i \in 1..Len(list) |-> list[Len(list) + 1 - i]]

\* the loop of get_models: the cleaned names of the models that have a method
\* list with generateContent in it, in the order of the listing
RECURSIVE model_names(_)
model_names(models) ==
    IF models = <<>> THEN <<>>
    ELSE LET model == Head(models)
         IN  IF model.supported_methods # NoMethods
                /\ contains(model.supported_methods, "generateContent")
             THEN <<replace(model.name, "models/")>> \o model_names(Tail(models))
             ELSE model_names(Tail(models))

get_models(resp) ==
    IF ~resp.sent THEN Err([msg |-> TransportError, at |-> "send"])
    ELSE IF ~is_success(resp.status) THEN Err([msg |-> ListFailed, status |-> resp.status])
    ELSE IF resp.json = Malformed THEN Err([msg |-> TransportError, at |-> "json"])
    ELSE LET names == reverse(sort(model_names(resp.json.models)))
         IN  IF names = <<>> THEN Err([msg |-> NoCompatibleModel])
             ELSE Ok(names)

InitModels ==
    /\ pc = "call"
    /\ input \in [api_key : ApiKeys, res : ListResponses]
    /\ ret = None
    /\ cli = [command |-> "Setup", all |-> FALSE, print_only |-> FALSE, language |-> "English"]
    /\ cfg = NoConfig
    /\ output = None
    /\ diff = None
    /\ msg = None
    /\ shown = None
    /\ final_msg = None
    /\ result = Running
    /\ trace = <<>>
    /\ response = None
    /\ pending = <<>>
    /\ rounds = 0

CallGetModels ==
    /\ pc = "call"
    /\ ret' = get_models(input.res)
    /\ pc' = "return"
    /\ UNCHANGED <<cli, cfg, output, diff, msg, shown, final_msg, result, trace, input,
                   response, pending, rounds>>

NextModels == CallGetModels

SpecModels == InitModels /\ [][NextModels]_vars

(***************************************************************************)
(* The review loop of main at its suspension points: the two awaits of     *)
(* generate_commit (send, then text or json), the Select of the terminal,  *)
(* and the waits for git commit and git push.                              *)
(***************************************************************************)
\* the three kinds of operation main waits for
Network == "network call"
UserInput == "user input"
Subprocess == "backend subprocess wait"

\* an operation that answered and is still counted as pending
resumed_never(p) == p

\* `.await`, and the blocking interact() and status(): the task goes on only
\* when the operation it started last has returned
resumed(p) == SubSeq(p, 1, Len(p) - 1)

\* the task starts an operation and waits for it
suspended(p, point) == Append(p, point)

\* the diff is fixed for the whole loop
LoopDiffs == {<<"a">>}

\* no response is being read
NoResponse == [sent |-> FALSE]

InitLoop ==
    /\ pc = "loop"
    /\ cli \in {c \in Cli : c.command = "None" /\ ~c.all}
    /\ cfg \in AppConfig
    /\ diff \in LoopDiffs
    /\ output = None
    /\ ret = None
    /\ msg = None
    /\ shown = None
    /\ final_msg = None
    /\ result = Running
    /\ trace = <<>>
    /\ input = None
    /\ response = NoResponse
    /\ pending = <<>>
    /\ rounds = 0

\* return Err(e) from main when the awaited operation has returned an error
BailLoop(e) ==
    /\ pc' = "exit"
    /\ result' = Failed(e)
    /\ pending' = resumed(pending)

\* main, the head of the loop: generate_commit is called and sends the POST
\* (client.post(&url).json(&request_body).send().await)
SendRequest ==
    /\ pc = "loop"
    /\ pc' = "send"
    /\ pending' = suspended(pending, Network)
    /\ UNCHANGED <<cli, cfg, output, diff, ret, msg, shown, final_msg, result, trace, input,
                   response, rounds>>

\* generate_commit: send() has returned, with an error or with the status
\* line of the response; the body is read next, by res.text().await when
\* the status is no success and by res.json().await otherwise
ReceiveStatus ==
    /\ pc = "send"
    /\ \/ /\ BailLoop([msg |-> TransportError, at |-> "send"])
          /\ ret' = Err([msg |-> TransportError, at |-> "send"])
          /\ UNCHANGED response
       \/ \E st \in StatusCodes :
             /\ response' = [sent |-> TRUE, status |-> st]
             /\ pc' = "body"
             /\ pending' = suspended(resumed(pending), Network)
             /\ UNCHANGED <<ret, result>>
    /\ UNCHANGED <<cli, cfg, output, diff, msg, shown, final_msg, trace, input, rounds>>

\* the responses with status st, over every body they can have
Bodies(st) ==
    IF is_success(st)
    THEN {[sent |-> TRUE, status |-> st, json |-> j] :
            j \in GenerateContentResponses \cup {Malformed}}
    ELSE {[sent |-> TRUE, status |-> st, text |-> t] :
            t \in TextsUpTo(MaxBody) \cup {Unreadable}}

\* what generate_commit can return for a model once the status is known,
\* over every body, as a table computed once
BodyResults ==
    [k \in Models \X StatusCodes |-> {handle_response(k[1], b) : b \in Bodies(k[2])}]
        @@ <<>>

\* generate_commit returns once the body is read; main prints the message
\* and, unless print-only, opens the Select
ReceiveBody ==
    /\ pc = "body"
    /\ \E r \in BodyResults[<<cfg.model, response.status>>] :
          /\ ret' = r
          /\ IF ~r.ok
             THEN /\ BailLoop(r.error)
                  /\ UNCHANGED <<msg, shown>>
             ELSE IF print_and_return
             THEN /\ pc' = "exit"
                  /\ result' = Succeeded
                  /\ msg' = r.value
                  /\ shown' = r.value
                  /\ pending' = resumed(pending)
             ELSE /\ msg' = r.value
                  /\ shown' = r.value
                  /\ pc' = "select"
                  /\ pending' = suspended(resumed(pending), UserInput)
                  /\ UNCHANGED result
    /\ response' = NoResponse
    /\ UNCHANGED <<cli, cfg, output, diff, final_msg, trace, input, rounds>>

\* main: Select::interact() has returned s
ReadSelection(s) ==
    /\ pc = "select"
    /\ IF ~s.ok
       THEN /\ BailLoop(s.error)
            /\ UNCHANGED <<final_msg, rounds>>
       ELSE IF match_selection(s.value) = "break"
       THEN /\ final_msg' = msg
            /\ pc' = "commit"
            /\ pending' = suspended(resumed(pending), Subprocess)
            /\ UNCHANGED <<result, rounds>>
       ELSE IF match_selection(s.value) = "continue"
       THEN /\ pc' = "loop"
            /\ pending' = resumed(pending)
            /\ rounds' = IF rounds < MaxRegen THEN rounds + 1 ELSE rounds
            /\ UNCHANGED <<final_msg, result>>
       ELSE /\ pc' = "exit"
            /\ result' = Succeeded
            /\ pending' = resumed(pending)
            /\ UNCHANGED <<final_msg, rounds>>
    /\ UNCHANGED <<cli, cfg, output, diff, ret, msg, shown, trace, input, response>>

\* main: git commit has exited, or could not be started
CommitExited ==
    /\ pc = "commit"
    /\ \E r \in StatusResults :
          IF ~r.spawned THEN BailLoop([msg |-> CommitUnavailable, source |-> IoError])
          ELSE IF ~success(r.status) THEN BailLoop([msg |-> CommitFailed])
          ELSE /\ pc' = "push"
               /\ pending' = suspended(resumed(pending), Subprocess)
               /\ UNCHANGED result
    /\ UNCHANGED <<cli, cfg, output, diff, ret, msg, shown, final_msg, trace, input,
                   response, rounds>>

\* main: git push has exited, or could not be started
PushExited ==
    /\ pc = "push"
    /\ \E r \in StatusResults :
          IF ~r.spawned THEN BailLoop([msg |-> PushUnavailable, source |-> IoError])
          ELSE IF ~success(r.status) THEN BailLoop([msg |-> PushFailed])
          ELSE /\ pc' = "exit"
               /\ result' = Succeeded
               /\ pending' = resumed(pending)
    /\ UNCHANGED <<cli, cfg, output, diff, ret, msg, shown, final_msg, trace, input,
                   response, rounds>>

\* the user selects something
Selects == \E s \in Interactions : ReadSelection(s)

\* the user selects something other than "Gerar Novamente"
SelectsOther == \E s \in Interactions \ {Ok(1)} : ReadSelection(s)

NextLoop ==
    \/ SendRequest
    \/ ReceiveStatus
    \/ ReceiveBody
    \/ Selects
    \/ CommitExited
    \/ PushExited

SpecLoop == InitLoop /\ [][NextLoop]_vars

\* the task runs on when it can, every external call returns, the user
\* answers, and does not answer "Gerar Novamente" for ever
SpecLoopFair ==
    /\ SpecLoop
    /\ WF_vars(SendRequest)
    /\ WF_vars(ReceiveStatus)
    /\ WF_vars(ReceiveBody)
    /\ WF_vars(CommitExited)
    /\ WF_vars(PushExited)
    /\ WF_vars(Selects)
    /\ SF_vars(SelectsOther)

(***************************************************************************)
(* What a run has done so far, read off the trace.                         *)
(***************************************************************************)
\* the positions of the trace where `git <sub>` was started or tried
Runs(sub) == {i \in DOMAIN trace : trace[i].kind = "command" /\ trace[i].argv[2] = sub}

\* `git <sub>` was tried
Ran(sub) == Runs(sub) # {}

\* `git <sub>` was started and ran to its exit
Executed(sub) == \E i \in Runs(sub) : trace[i].result.spawned

\* `git <sub>` ran and exited zero
Passed(sub) == \E i \in Runs(sub) :
                  trace[i].result.spawned /\ trace[i].result.status.code = 0

\* `git <sub>` ran and exited non-zero
Refused(sub) == \E i \in Runs(sub) :
                   trace[i].result.spawned /\ trace[i].result.status.code # 0

\* the positions of the calls of generate_commit
Calls == {i \in DOMAIN trace : trace[i].kind = "generate_commit"}

\* the positions where the user was asked for a selection
Selections == {i \in DOMAIN trace : trace[i].kind = "select"}

\* the user selected item n
Selected(n) == \E i \in Selections : trace[i].result = Ok(n)

HasLineBreak(t) == \E i \in DOMAIN t : t[i] = "\n"

(***************************************************************************)
(* Claims on the pipeline (Spec).                                          *)
(***************************************************************************)
\* the staged diff was read without error and is empty or all whitespace
BlankDiffOutput ==
    /\ pc = "get_git_diff"
    /\ output.spawned
    /\ output.status.code = 0
    /\ output.stdout # InvalidUtf8
    /\ \A i \in DOMAIN output.stdout : output.stdout[i] \in {" ", "\n"}

\* C1: when git diff --staged exits zero with an output that is empty or
\* all whitespace, get_git_diff fails with NoStagedChanges and main returns
\* that error; a run that ended so has made no call of the generation
\* service, has asked for no selection and has run no commit and no push.
C1_NoStagedChanges ==
    /\ [][BlankDiffOutput =>
            pc' = "exit" /\ result' = Failed([msg |-> NoStagedChanges])]_vars
    /\ [](result = Failed([msg |-> NoStagedChanges]) =>
            /\ pc = "exit"
            /\ Calls = {}
            /\ Selections = {}
            /\ ~Ran("commit")
            /\ ~Ran("push"))

C1_Witness ==
    /\ pc = "exit"
    /\ result = Failed([msg |-> NoStagedChanges])
    /\ Passed("diff")

\* C2 as claimed: a run with print-only set executes none of git add,
\* git commit and git push.
C2_Original ==
    cli.print_only => ~Executed("add") /\ ~Executed("commit") /\ ~Executed("push")

\* C2: a run with print-only set never asks for a selection and never runs
\* git commit or git push, whatever the other flags and the outcomes of the
\* service; git add runs in it exactly when --all was given and the
\* configuration was loaded.
C2_PrintOnlyNoCommit ==
    cli.print_only =>
        /\ pc \notin {"interact", "commit", "push"}
        /\ Selections = {}
        /\ ~Ran("commit")
        /\ ~Ran("push")
        /\ final_msg = None
        /\ Ran("add") => cli.all
        /\ pc \in {"diff", "get_git_diff", "generate"} /\ cli.all => Passed("add")

C2_Witness ==
    /\ cli.print_only
    /\ cli.all
    /\ pc = "exit"
    /\ result = Succeeded
    /\ Passed("add")
    /\ Calls # {}
    /\ shown # None

\* C3 as claimed: a run in which the user selected Cancel has executed none
\* of git add, git commit and git push.
C3_Original ==
    Selected(2) => ~Executed("add") /\ ~Executed("commit") /\ ~Executed("push")

\* C3: once the user selected Cancel the run has ended with Ok and nothing
\* follows the selection but the line that reports it: no git commit and no
\* git push was run; git add was run, before the diff was read, exactly when
\* --all was given.
C3_CancelNoCommit ==
    Selected(2) =>
        /\ pc = "exit"
        /\ result = Succeeded
        /\ ~Ran("commit")
        /\ ~Ran("push")
        /\ final_msg = None
        /\ Passed("add") <=> cli.all
        /\ \A i \in Runs("add") : \A j \in Runs("diff") : i < j
        /\ trace[Len(trace) - 1] = Select(Ok(2))
        /\ trace[Len(trace)].kind = "println"

C3_Witness ==
    /\ Selected(2)
    /\ cli.all
    /\ Selected(1)
    /\ pc = "exit"

\* C4: in a run in which the user selected Regenerate n times and then
\* Confirm, generate_commit was called exactly n+1 times, every call sent
\* the same request, whose prompt is built from the diff that the one
\* git diff of the run returned before the first call, and the final
\* message is the value the last call returned.
C4_RegenerateThenConfirm ==
    Selected(0) =>
        /\ Cardinality(Calls) = Regenerations + 1
        /\ \A i \in Calls :
              /\ trace[i].request = Request(cfg.api_key, cfg.model, diff, cli.language)
              /\ trace[i].request.body.contents[1].parts[1].text
                    = prompt_text(cli.language, diff)
        /\ Cardinality(Runs("diff")) = 1
        /\ \A i \in Runs("diff") : \A j \in Calls : i < j
        /\ ret.ok
        /\ final_msg = ret.value

C4_Witness ==
    /\ Selected(0)
    /\ Regenerations = 2
    /\ Cardinality(Calls) = 3
    /\ final_msg = <<"a">>

\* C5: when git commit exited zero and the git push after it exited
\* non-zero, main returns the error of the failed push, which is not the
\* error of a failed commit, and the push is the last command of the run:
\* nothing is run after it.
C5_PushFailed ==
    Passed("commit") /\ Refused("push") =>
        /\ pc = "exit"
        /\ result = Failed([msg |-> PushFailed])
        /\ result # Failed([msg |-> CommitFailed])
        /\ trace[Len(trace)].kind = "command"
        /\ trace[Len(trace)].argv = <<"git", "push">>
        /\ Cardinality(Runs("commit")) = 1
        /\ Cardinality(Runs("push")) = 1
        /\ \A i \in Runs("commit") : \A j \in Runs("push") : i < j

C5_Witness ==
    /\ Passed("commit")
    /\ Refused("push")
    /\ result = Failed([msg |-> PushFailed])

\* C6: with --all, git add . runs before git diff --staged, and the diff is
\* read only after git add exited zero; when git add exits non-zero main
\* returns StageFailed and the run has read no diff, called no generation,
\* asked for no selection and run no commit and no push.
C6_StageAllFirst ==
    /\ cli.all /\ Ran("diff") =>
          /\ Passed("add")
          /\ \A i \in Runs("add") : \A j \in Runs("diff") : i < j
    /\ Refused("add") =>
          /\ pc = "exit"
          /\ result = Failed([msg |-> StageFailed])
          /\ ~Ran("diff")
          /\ diff = None
          /\ Calls = {}
          /\ Selections = {}
          /\ ~Ran("commit")
          /\ ~Ran("push")

C6_Witness ==
    /\ cli.all
    /\ Refused("add")
    /\ result = Failed([msg |-> StageFailed])

\* a text that neither begins nor ends with a line break
NoEdgeBreak(t) == t = <<>> \/ (t[1] # "\n" /\ t[Len(t)] # "\n")

\* C10 as claimed: no message that generate_commit returned, that is shown
\* or that is handed to git commit holds a line break.
C10_Original ==
    /\ Calls # {} /\ ret.ok => ~HasLineBreak(ret.value)
    /\ shown # None => ~HasLineBreak(shown)
    /\ \A i \in Runs("commit") : ~HasLineBreak(trace[i].argv[4])

\* C10: the message generate_commit returned is the one shown and the one
\* handed to git commit, unchanged, and it neither begins nor ends with a
\* line break (line breaks between other characters of the text of the
\* service stay in it).
C10_TrimmedMessage ==
    /\ Calls # {} /\ ret.ok => NoEdgeBreak(ret.value) /\ shown = ret.value /\ msg = shown
    /\ shown # None => NoEdgeBreak(shown)
    /\ final_msg # None => final_msg = shown
    /\ \A i \in Runs("commit") : trace[i].argv = <<"git", "commit", "-m", shown>>

C10_Witness ==
    /\ Passed("commit")
    /\ final_msg = <<"a", "\n", "a">>

(***************************************************************************)
(* Claims on generate_commit (SpecGenerate).                               *)
(***************************************************************************)
\* generate_commit returned, and the service had answered with a status that
\* is no success
ErrorStatus == pc = "return" /\ input.res.sent /\ ~is_success(input.res.status)

\* generate_commit returned, and the service had answered with a success
\* status and a body that parses
Parsed ==
    /\ pc = "return"
    /\ input.res.sent
    /\ is_success(input.res.status)
    /\ input.res.json # Malformed

\* C7 as claimed: on a non-2xx answer whose body can be read the error
\* carries the model, the HTTP status code and the body as received.
C7_Original ==
    ErrorStatus /\ input.res.text # Unreadable =>
        /\ ~ret.result.ok
        /\ ret.result.error.msg = ServiceError
        /\ ret.result.error.model = input.model
        /\ ret.result.error.body = input.res.text
        /\ "status" \in DOMAIN ret.result.error
        /\ ret.result.error.status = input.res.status

\* C7: on a non-2xx answer generate_commit returns an error, never a
\* message; when the body can be read the error is the ServiceError made of
\* the model and of the body as received and of nothing else (the HTTP status
\* code is not in it); when the body cannot be read it is the error of the
\* transport.
C7_ServiceError ==
    ErrorStatus =>
        /\ ~ret.result.ok
        /\ input.res.text # Unreadable =>
              /\ ret.result.error.msg = ServiceError
              /\ ret.result.error.model = input.model
              /\ ret.result.error.body = input.res.text
              /\ DOMAIN ret.result.error = {"msg", "model", "body"}
        /\ input.res.text = Unreadable =>
              ret.result.error = [msg |-> TransportError, at |-> "text"]

C7_Witness ==
    /\ ErrorStatus
    /\ input.res.status = 500
    /\ input.res.text = <<" ", "a">>
    /\ ret.result.error.body = <<" ", "a">>

\* C8: on a success status with a body that parses, an empty candidate list
\* gives the error EmptyResponse and a first candidate without a text segment
\* gives the error EmptyContent; the two differ from each other and from
\* ServiceError, and in neither case is a message returned.
C8_EmptyResponse ==
    /\ EmptyResponse # EmptyContent
    /\ EmptyResponse # ServiceError
    /\ EmptyContent # ServiceError
    /\ Parsed =>
          LET candidates == input.res.json.candidates
          IN  /\ candidates = <<>> =>
                    ret.result = [ok |-> FALSE, error |-> [msg |-> EmptyResponse]]
              /\ candidates # <<>> /\ candidates[1].content.parts = <<>> =>
                    ret.result = [ok |-> FALSE, error |-> [msg |-> EmptyContent]]

C8_Witness ==
    /\ Parsed
    /\ Len(input.res.json.candidates) = 2
    /\ input.res.json.candidates[1].content.parts = <<>>
    /\ input.res.json.candidates[2].content.parts # <<>>
    /\ ret.result = [ok |-> FALSE, error |-> [msg |-> EmptyContent]]

\* m is t without the whitespace at its two ends, and nothing else changed
IsTrimOf(m, t) ==
    /\ m # <<>> => m[1] \notin White_Space /\ m[Len(m)] \notin White_Space
    /\ \E i \in 0..Len(t) :
          /\ i + Len(m) <= Len(t)
          /\ m = SubSeq(t, i + 1, i + Len(m))
          /\ \A k \in 1..i : t[k] \in White_Space
          /\ \A k \in (i + Len(m) + 1)..Len(t) : t[k] \in White_Space

\* C9: generate_commit returns a message exactly when the answer has a
\* success status, parses and has a first candidate with a first text
\* segment, and the message is then that segment without the whitespace at
\* its two ends and with nothing else changed, whatever the later segments
\* and candidates are; it never begins or ends with whitespace.
C9_FirstSegmentTrimmed ==
    pc = "return" =>
        /\ ret.result.ok =>
              /\ Parsed
              /\ input.res.json.candidates # <<>>
              /\ input.res.json.candidates[1].content.parts # <<>>
        /\ (/\ Parsed
            /\ input.res.json.candidates # <<>>
            /\ input.res.json.candidates[1].content.parts # <<>>) =>
              /\ ret.result.ok
              /\ IsTrimOf(ret.result.value,
                          input.res.json.candidates[1].content.parts[1].text)

C9_Witness ==
    /\ Parsed
    /\ input.res.json.candidates
          = <<[content |-> [parts |-> <<[text |-> <<"a", "\n">>], [text |-> <<"a">>]>>]]>>
    /\ ret.result = [ok |-> TRUE, value |-> <<"a">>]

(***************************************************************************)
(* Claims on the pipeline (Spec), continued.                               *)
(***************************************************************************)
\* C11: every request of a run carries the generation parameters 1024 and
\* 0.2 and one single text segment, the prompt; the prompt is made of the
\* fixed instructions around the language, followed by the diff verbatim,
\* so that all requests of the run, whatever the attempt, the configuration
\* and the answers received before, hold the same body.
C11_DeterministicRequest ==
    \A i \in Calls :
        LET body == trace[i].request.body
            text == body.contents[1].parts[1].text
        IN  /\ body.generation_config = [max_output_tokens |-> 1024, temperature |-> "0.2"]
            /\ Len(body.contents) = 1
            /\ Len(body.contents[1].parts) = 1
            /\ Len(text) = 3 + Len(diff)
            /\ text[2] = cli.language
            /\ SubSeq(text, 4, Len(text)) = diff
            /\ \A j \in Calls :
                  /\ trace[j].request.body = body
                  /\ trace[j].request.body.contents[1].parts[1].text[1] = text[1]
                  /\ trace[j].request.body.contents[1].parts[1].text[3] = text[3]

C11_Witness ==
    /\ Cardinality(Calls) = 3
    /\ cli.language = "Portugues"
    /\ cfg.model = "gemini-1.5-pro"
    /\ diff = <<"a", "\n">>
    /\ shown = <<"a", " ", "a">>

\* the run ended in one of the four ways that are no error: commit and push
\* done, the message printed in print-only mode, the setup completed, or the
\* user cancelled
EndedWell ==
    \/ Passed("commit") /\ Passed("push")
    \/ cli.print_only /\ Calls # {} /\ trace[Len(trace)] = Println("--- Sugestao de Commit Message ---")
    \/ cli.command = "Setup" /\ trace = <<Println("Configuracao salva com sucesso!")>>
    \/ Selected(2)

\* the messages of the errors of the pipeline
PipelineErrors ==
    {BackendUnavailable, BackendError, EncodingError, NoStagedChanges, ServiceError,
     EmptyResponse, EmptyContent, StageFailed, CommitFailed, PushFailed, ConfigCorrupt}

\* C12: a run that has ended has exit status 0 exactly when it ended with
\* commit and push done, with the message printed in print-only mode, with
\* the setup completed or with the user's Cancel; otherwise main returned an
\* error and the exit status is not 0, in particular for every error of the
\* diff, the staging, the generation, the commit and the push.
C12_ExitStatus ==
    pc = "exit" =>
        /\ exit_code = 0 <=> EndedWell
        /\ ~EndedWell => result.status = "Err" /\ exit_code # 0
        /\ result.status = "Err" => exit_code # 0
        /\ result.status = "Err" /\ result.error.msg \in PipelineErrors => ~EndedWell

C12_Witness ==
    /\ pc = "exit"
    /\ Passed("commit")
    /\ Refused("push")
    /\ exit_code = 1
    /\ Regenerations = 1

\* C13: the commit command is tried only right after the user selected
\* Confirm, at most once in a run, and its argument vector is
\* git commit -m <message> with the message as one single argument, the
\* message being the one on display when Confirm was selected, which is the
\* value of the most recent successful generation.
C13_CommitAfterConfirm ==
    /\ Cardinality(Runs("commit")) <= 1
    /\ \A i \in Runs("commit") :
          /\ i > 1
          /\ trace[i - 1] = Select(Ok(0))
          /\ \A j \in Selections : j < i
          /\ \A j \in Calls : j < i
          /\ Len(trace[i].argv) = 4
          /\ trace[i].argv[3] = "-m"
          /\ trace[i].argv[4] = shown
          /\ ret.ok /\ trace[i].argv[4] = ret.value
    /\ pc = "commit" => trace[Len(trace)] = Select(Ok(0)) /\ final_msg = shown
    /\ pc \in {"main", "add", "diff", "get_git_diff", "generate", "interact"} => ~Ran("commit")

C13_Witness ==
    /\ Passed("commit")
    /\ Regenerations = 1
    /\ trace[Len(trace)].kind = "command"
    /\ trace[Len(trace)].argv = <<"git", "commit", "-m", <<"a", "\n", "a">>>>

\* C14: a push is tried only after the commit command of the run exited
\* zero, and a run that ended after such a commit has tried the push exactly
\* once; a commit command that exits non-zero ends the run with CommitFailed
\* and no push is tried, and neither is one when the commit command could not
\* be started.
C14_PushAfterCommit ==
    /\ Cardinality(Runs("push")) <= 1
    /\ \A i \in Runs("push") :
          \E j \in Runs("commit") :
              /\ j < i
              /\ trace[j].result.spawned
              /\ trace[j].result.status.code = 0
    /\ Passed("commit") => (pc = "push" /\ ~Ran("push")) \/ (pc = "exit" /\ Cardinality(Runs("push")) = 1)
    /\ Refused("commit") =>
          /\ pc = "exit"
          /\ result = Failed([msg |-> CommitFailed])
          /\ ~Ran("push")
    /\ Ran("commit") /\ ~Executed("commit") => pc = "exit" /\ result.status = "Err" /\ ~Ran("push")

C14_Witness ==
    /\ pc = "exit"
    /\ Passed("commit")
    /\ Passed("push")
    /\ result = Succeeded
    /\ cli.all

\* a run whose commit command exited non-zero
C14_WitnessRefused ==
    /\ Refused("commit")
    /\ result = Failed([msg |-> CommitFailed])
    /\ Regenerations = 2

\* the generation has been called and its last call failed
GenerationFailed == Calls # {} /\ ~ret.ok

\* C15: every call of the generation after the first comes right after a
\* Regenerate selection of the user (only the two progress lines lie
\* between), so there are never more calls than one plus the Regenerate
\* selections; and once a call has failed, on the first attempt or after a
\* message was displayed, the run has ended with exactly that error, the
\* failed call is the last thing it did, the user was not asked again and no
\* commit or push was tried.
C15_NoRetry ==
    /\ \A i \in Calls :
          (\E j \in Calls : j < i) =>
              /\ i > 3
              /\ trace[i - 1] = Println("Gerando mensagem de commit com {}...")
              /\ trace[i - 2] = Println("Tentando outra opcao...")
              /\ trace[i - 3] = Select(Ok(1))
    /\ Cardinality(Calls) <= 1 + Cardinality({i \in Selections : trace[i].result = Ok(1)})
    /\ GenerationFailed =>
          /\ pc = "exit"
          /\ result = Failed(ret.error)
          /\ trace[Len(trace)].kind = "generate_commit"
          /\ ~Ran("commit")
          /\ ~Ran("push")

C15_Witness ==
    /\ GenerationFailed
    /\ Selected(1)
    /\ shown = <<"a", " ", "a">>
    /\ ret.error.msg = ServiceError
    /\ pc = "exit"

\* C16: in print-only mode the user is never asked for a selection, so the
\* Regenerate path is never taken and the generation is called at most once;
\* when that call succeeds the run has ended successfully with that one
\* call, its message on display and the printed message as the last thing
\* it did; a print-only run that is not the setup ends successfully only so.
C16_PrintOnlyOnce ==
    cli.print_only =>
        /\ Selections = {}
        /\ pc \notin {"interact", "commit", "push"}
        /\ Cardinality(Calls) <= 1
        /\ Calls # {} /\ ret.ok =>
              /\ Cardinality(Calls) = 1
              /\ pc = "exit"
              /\ result = Succeeded
              /\ shown = ret.value
              /\ trace[Len(trace)] = Println("--- Sugestao de Commit Message ---")
              /\ \A i \in Calls : i = Len(trace) - 1
        /\ pc = "exit" /\ result = Succeeded /\ cli.command # "Setup" =>
              Cardinality(Calls) = 1 /\ ret.ok

C16_Witness ==
    /\ cli.print_only
    /\ cli.all
    /\ pc = "exit"
    /\ result = Succeeded
    /\ Cardinality(Calls) = 1
    /\ shown = <<"a", "\n", "a">>

(***************************************************************************)
(* Claims on the review loop at its suspension points (SpecLoop).          *)
(***************************************************************************)
\* the generation requests in flight
InFlight == {i \in DOMAIN pending : pending[i] = Network}

\* what the task waits for at each place of the loop
Awaited ==
    CASE pc \in {"send", "body"} -> <<Network>>
      [] pc = "select" -> <<UserInput>>
      [] pc \in {"commit", "push"} -> <<Subprocess>>
      [] OTHER -> <<>>

\* C17, in every state: at most one operation is pending, so at most one
\* generation request is in flight, and it is the one operation of the place
\* the task is at.
OnePending ==
    /\ Len(pending) <= 1
    /\ Cardinality(InFlight) <= 1
    /\ pending = Awaited

\* C17, in every step: a generation call starts only when nothing is
\* pending, and a call after the first only when the previous call has
\* returned a message and the selection of the user has been read; a backend
\* command starts only as the operation before it returns.
StartsAfterReturn ==
    /\ pc' = "send" =>
          /\ pc = "loop"
          /\ pending = <<>>
          /\ pending' = <<Network>>
    /\ pc' = "loop" =>
          /\ pc = "select"
          /\ pending = <<UserInput>>
          /\ pending' = <<>>
          /\ ret.ok
          /\ shown = ret.value
    /\ pc' = "commit" => pc = "select" /\ pending = <<UserInput>> /\ pending' = <<Subprocess>>
    /\ pc' = "push" => pc = "commit" /\ pending = <<Subprocess>> /\ pending' = <<Subprocess>>

\* C17: at every point of the loop at most one generation request is in
\* flight and no two of the suspension points (network call, user input,
\* backend subprocess wait) are pending together; a generation call starts
\* only after the call before it returned and the selection was read, and
\* git commit and git push start only after the step before them finished.
C17_OneAtATime == []OnePending /\ [][StartsAfterReturn]_vars

C17_Witness ==
    /\ pc = "send"
    /\ pending = <<Network>>
    /\ rounds = 2
    /\ shown = <<"a", " ", "a">>

(***************************************************************************)
(* Claims on get_git_diff (Spec, the step from pc = "get_git_diff").       *)
(***************************************************************************)
\* the text is empty or all whitespace
Blank(t) == \A i \in DOMAIN t : t[i] \in White_Space

\* the step that classifies the captured output of git diff --staged
ClassifiesInOrder ==
    pc = "get_git_diff" =>
        /\ Cardinality(Runs("diff")) = 1
        /\ IF ~output.spawned
           THEN /\ pc' = "exit"
                /\ result' = Failed([msg |-> BackendUnavailable, source |-> IoError])
           ELSE IF output.status.code # 0
           THEN /\ pc' = "exit"
                /\ result' = Failed([msg |-> BackendError,
                                     stderr |-> IF output.stderr = InvalidUtf8
                                                THEN Replacement ELSE output.stderr])
           ELSE IF output.stdout = InvalidUtf8
           THEN /\ pc' = "exit"
                /\ result' = Failed([msg |-> EncodingError])
           ELSE IF Blank(output.stdout)
           THEN /\ pc' = "exit"
                /\ result' = Failed([msg |-> NoStagedChanges])
           ELSE /\ pc' = "generate"
                /\ diff' = output.stdout
                /\ result' = Running
        /\ pc' = "exit" => diff' = None
        /\ trace' = trace

\* C18: git diff --staged is run once in a run, and its outcome is
\* classified in this order: BackendUnavailable when git could not be
\* started, else BackendError with the text of stderr when it exited
\* non-zero whatever stdout holds, else EncodingError when stdout is not
\* valid UTF-8, else NoStagedChanges when stdout is empty or all whitespace;
\* only in the case left a diff is returned, and it is stdout as captured,
\* untrimmed.
C18_ClassifyDiff ==
    /\ [](Cardinality(Runs("diff")) <= 1)
    /\ [](diff # None => ~Blank(diff) /\ Passed("diff"))
    /\ [][ClassifiesInOrder]_vars

C18_Witness ==
    /\ pc = "generate"
    /\ diff = <<"\n", "a">>
    /\ Passed("diff")
    /\ cli.all

\* the ways the loop ends: the message was confirmed, the user cancelled
\* (the one successful end of an interactive run without a confirmed
\* message), the message was printed in print-only mode, or an error
DecidedAccept == final_msg # None /\ final_msg = shown
DecidedCancel ==
    pc = "exit" /\ result = Succeeded /\ ~cli.print_only /\ final_msg = None /\ shown # None
PrintOnlyEnd ==
    pc = "exit" /\ result = Succeeded /\ cli.print_only /\ final_msg = None /\ shown # None
ErrorEnd == pc = "exit" /\ result.status = "Err"

\* nothing in the loop counts the rounds: whenever the selection is awaited,
\* "Gerar Novamente" leads back to the head of the loop, whatever the number
\* of rounds before; from there the request is sent again, and a response
\* with a message leads to the selection again
NoBoundOnRounds ==
    /\ pc = "select" => ENABLED (ReadSelection(Ok(1)) /\ pc' = "loop")
    /\ pc = "loop" => ENABLED SendRequest
    /\ pc = "send" => ENABLED (ReceiveStatus /\ pc' = "body" /\ is_success(response'.status))
    /\ pc = "body" /\ is_success(response.status) /\ ~cli.print_only =>
          ENABLED (ReceiveBody /\ pc' = "select")

\* C19: when every external call returns and the user does not select
\* "Gerar Novamente" for ever, the loop ends with the message confirmed, with
\* the user's cancel, with the print-only output or with an error, and the
\* process ends; the loop has no bound on the rounds, for at every selection
\* another round can be started and completed.
C19_Terminates ==
    /\ <>(DecidedAccept \/ DecidedCancel \/ PrintOnlyEnd \/ ErrorEnd)
    /\ <>(pc = "exit")
    /\ [](pc = "exit" => DecidedAccept \/ DecidedCancel \/ PrintOnlyEnd \/ ErrorEnd)
    /\ []NoBoundOnRounds

C19_Witness ==
    /\ DecidedCancel
    /\ rounds = MaxRegen
    /\ pending = <<>>

(***************************************************************************)
(* Claims on get_models (SpecModels).                                      *)
(***************************************************************************)
\* the listing was received and parsed
Listed == input.res.sent /\ is_success(input.res.status) /\ input.res.json # Malformed

\* the listed models that have a method list with generateContent in it
Eligible ==
    LET models == input.res.json.models
    IN  {i \in DOMAIN models :
            /\ models[i].supported_methods # NoMethods
            /\ \E k \in DOMAIN models[i].supported_methods :
                  models[i].supported_methods[k] = "generateContent"}

\* the name without its "models/" prefix, and otherwise unchanged
StripPrefix(name) == IF name # <<>> /\ name[1] = "models/" THEN Tail(name) ELSE name

\* the name without any "models/" in it
StripEvery(name) == SelectSeq(name, LAMBDA c : c # "models/")

Descending(list) == \A i \in 1..(Len(list) - 1) : ~Less(list[i], list[i + 1])

\* the list offers one entry for every eligible model, named by Clean
Offers(list, Clean(_)) ==
    /\ Len(list) = Cardinality(Eligible)
    /\ \A n \in {list[i] : i \in DOMAIN list} \cup
                {Clean(input.res.json.models[i].name) : i \in Eligible} :
          Cardinality({i \in DOMAIN list : list[i] = n})
              = Cardinality({i \in Eligible : Clean(input.res.json.models[i].name) = n})

\* C20: when the listing was received, model discovery offers exactly the
\* listed models whose method list is present and contains generateContent,
\* each under its name with the "models/" prefix stripped and otherwise
\* unchanged, in descending order; with no such model it offers nothing.
C20_Original ==
    pc = "return" /\ Listed =>
        IF Eligible = {} THEN ~ret.ok
        ELSE /\ ret.ok
             /\ Offers(ret.value, StripPrefix)
             /\ Descending(ret.value)

\* what get_models does: as C20, but with every "models/" of a name taken
\* out, wherever it stands
C20_EveryOccurrenceStripped ==
    pc = "return" /\ Listed =>
        IF Eligible = {} THEN ret = Err([msg |-> NoCompatibleModel])
        ELSE /\ ret.ok
             /\ Offers(ret.value, StripEvery)
             /\ Descending(ret.value)

\* an eligible model with "models/" behind the first piece of its name
C20_Witness ==
    /\ pc = "return"
    /\ input.res.sent
    /\ input.res.status = 200
    /\ input.res.json # Malformed
    /\ input.res.json.models =
          <<[name |-> <<"models/", "gemini">>, supported_methods |-> NoMethods],
            [name |-> <<"gemini", "models/">>,
             supported_methods |-> <<"embedContent", "generateContent">>]>>
    /\ ret = Ok(<<<<"gemini">>>>)

====
